---- MODULE Spec2Model ----
(***************************************************************************)
(* The REST client of Functional-Python-Part-3.ipynb: the request pipeline *)
(* built by to_get (final revision, with headers, error_handler and        *)
(* logger), its stages and the n-ary compose that chains them.             *)
(*                                                                         *)
(* Python strings that the code takes apart or joins (the base address,    *)
(* the segment, the URL, the body bytes) are sequences of one-character    *)
(* strings.  A dict is a set of <<key, value>> pairs with unique keys.     *)
(* A call of the fetch function f runs in steps: Call (lines 1529-1540),   *)
(* the transport GET (line 1542), then one step for each function of the   *)
(* composed chain.                                                         *)
(*                                                                         *)
(* Further parts: the Todo transforms and the TodoClient (SpecClient), the *)
(* notebook and README compose on integer functions (SpecCompose), and the *)
(* command-line runner of Iterations #3 and #4 (SpecRunner).  Each         *)
(* specification leaves the variables of the other parts at their idle     *)
(* values.                                                                 *)
(***************************************************************************)
EXTENDS Integers, Sequences, FiniteSets

VARIABLES
    client,          \* the TodoClient, if one was constructed: base_url, headers, logger, error_handler
    other,           \* a second TodoClient, if one was constructed
    callers,         \* history: which client made each call so far, "client" or "other"
    explicit_headers,\* content of the dict object given as headers= to a TodoClient
    entry,           \* what the current call was made through: "f", "get_todos" or "get_todo_by_id"
    rget,            \* the closure built by to_get: base_url, headers, error_handler, logger
    DEFAULT_HEADER,  \* content of the dict object that rget.headers refers to
    defaults0,       \* history: content of that dict when the pipeline was built
    overlays,        \* history: the per-call overlay h of every call that merged
    ncalls,          \* number of calls of f so far
    pc,              \* "idle" | "get" | "transform" | "done"
    args,            \* the arguments of the current call: segment and kw as given
    url,             \* local url of f
    kw,              \* local kw of f, after kw['headers'] = headers and kw.pop('transform')
    stages,          \* locals transform_func, err_handler, logger_func
    pending,         \* functions of the composed chain not called yet, next first
    request,         \* what requests.get was called with in this call
    get_result,      \* how requests.get ended in this call: the response returned or the error raised
    val,             \* value handed from one function of the chain to the next
    trace,           \* the calls of chain functions made in this call: fn, arg, res
    stdout,          \* records printed during this call
    outcome,         \* how the call of f ended: return value or raised exception
    \* a composition of integer functions and one application of it
    readme,          \* TRUE: the compose of the README, FALSE: the compose of the notebooks
    given,           \* the functions given to compose, in the order given
    input,           \* the argument the composed function is applied to
    composed,        \* the function compose returned
    todo,            \* functions the application has not called yet, next first
    acc,             \* value handed from one function to the next
    calls,           \* the calls the application made: fn, arg, res
    cpc,             \* "idle" | "composed" | "applying" | "done"
    \* the command-line runner
    iteration,       \* which runner of the notebook runs: 3 or 4
    argv,            \* the argument list given to runner
    pargs,           \* local pargs of runner: the parsed Namespace
    exit_code,       \* local exit_code of runner
    out,             \* local out of runner, unbound until the sub-command returned
    caught,          \* the exception the except clause of runner caught, if any
    events,          \* calls of setup_logger, the sub-command, error_handler and run_epilogue, in order
    result,          \* how runner ended: return value or raised exception
    rpc,             \* "idle" | "parse" | "setup" | "func" | "epilogue" | "return" | "done"
    nruns,           \* number of runs of runner so far
    \* the closures of Part 4
    wrapped,         \* the f given to compute, by closure
    cache,           \* local cache of compute (Example #1), by closure
    num_times_called,\* local num_times_called of compute (nonlocal version), by closure
    log              \* the calls made on the closures: which, m, n, whether f was invoked, how it ended

pipelineVars == << client, other, callers, explicit_headers, entry, rget, DEFAULT_HEADER, defaults0, overlays, ncalls, pc, args, url, kw,
                   stages, pending, request, get_result, val, trace, stdout, outcome >>

composeVars == << readme, given, input, composed, todo, acc, calls, cpc >>

runnerVars == << iteration, argv, pargs, exit_code, out, caught, events, result, rpc, nruns >>

closureVars == << wrapped, cache, num_times_called, log >>

vars == << pipelineVars, composeVars, runnerVars, closureVars >>

-----------------------------------------------------------------------------
(* Bounds and program constants *)

MaxCalls == 2

\* compose is given 1..MaxFuncs functions and the composition an argument in 0..MaxInput
MaxFuncs == 3

MaxInput == 7

\* runner is called at most MaxRuns times
MaxRuns == 2

\* the closures are called at most MaxClosureCalls times, with m and n in 0..MaxArg
MaxClosureCalls == 3

MaxArg == 1

\* default_error_code=1 of error_handler
default_error_code == 1

ExcerptLen == 25

-----------------------------------------------------------------------------
(* Values *)

None == [tag |-> "None"]

Return(v) == [kind |-> "return", value |-> v, out |-> <<>>]

Raise(type, msg) ==
    [kind |-> "raise", value |-> [tag |-> "Exception", type |-> type, msg |-> msg], out |-> <<>>]

\* str.format: the template and the values substituted in its fields, in order
Format(template, values) == [template |-> template, values |-> values]

Min(a, b) == IF a <= b THEN a ELSE b

\* Python slice s[:n]
SlicePrefix(s, n) == SubSeq(s, 1, Min(n, Len(s)))

-----------------------------------------------------------------------------
(* dict *)

Keys(d) == {p[1] : p \in d}

Lookup(d, k) == (CHOOSE p \in d : p[1] = k)[2]

\* an update that leaves d as it was
DictUpdateDropped(d, h) == d

\* dict.update(h): the entries of h replace the entries of d with the same key
DictUpdate(d, h) == {p \in d : p[1] \notin Keys(h)} \cup h

-----------------------------------------------------------------------------
(* Inputs *)

BASE_URL == << "h" >>

BaseUrls == { <<>>, BASE_URL, << "h", "/" >> }

Segments == { <<>>, << "t" >>, << "/", "t" >> }

HeaderSets == { {}, { <<"x-my-header", "12345">> } }

Overlays == { {}, { <<"a", "1">> }, { <<"x-my-header", "9">> } }

\* the keyword options of a call: any of headers, transform
KwInputs ==
    { [none |-> TRUE] } \cup
    { [headers |-> h] : h \in Overlays } \cup
    { [transform |-> "to_todo"] } \cup
    { [headers |-> h, transform |-> "to_todo"] : h \in Overlays } \cup
    { [timeout |-> 5], [timeout |-> 5, transform |-> "to_todo"] }

BodyEmptyObject == << "{", "}" >>

BodyTodo ==
    << "{", "\"", "u", "s", "e", "r", "I", "d", "\"", ":", " ", "1", ",", " ",
       "\"", "i", "d", "\"", ":", " ", "1", ",", " ", "\"", "t", "i", "t", "l",
       "e", "\"", ":", " ", "\"", "t", "\"", ",", " ", "\"", "c", "o", "m", "p",
       "l", "e", "t", "e", "d", "\"", ":", " ", "f", "a", "l", "s", "e", "}" >>

Bodies == { BodyEmptyObject, BodyTodo }

\* {"userId": 1, "id": 2, "title": "u", "completed": true}
BodyTodo2 ==
    << "{", "\"", "u", "s", "e", "r", "I", "d", "\"", ":", " ", "1", ",", " ",
       "\"", "i", "d", "\"", ":", " ", "2", ",", " ", "\"", "t", "i", "t", "l",
       "e", "\"", ":", " ", "\"", "u", "\"", ",", " ", "\"", "c", "o", "m", "p",
       "l", "e", "t", "e", "d", "\"", ":", " ", "t", "r", "u", "e", "}" >>

\* {"userId": 1, "id": 1, "completed": false}
BodyNoTitle ==
    << "{", "\"", "u", "s", "e", "r", "I", "d", "\"", ":", " ", "1", ",", " ",
       "\"", "i", "d", "\"", ":", " ", "1", ",", " ", "\"", "c", "o", "m", "p",
       "l", "e", "t", "e", "d", "\"", ":", " ", "f", "a", "l", "s", "e", "}" >>

\* {"userId": 1, "id": true, "title": "t", "completed": false}
BodyBoolId ==
    << "{", "\"", "u", "s", "e", "r", "I", "d", "\"", ":", " ", "1", ",", " ",
       "\"", "i", "d", "\"", ":", " ", "t", "r", "u", "e", ",", " ", "\"", "t",
       "i", "t", "l", "e", "\"", ":", " ", "\"", "t", "\"", ",", " ", "\"", "c",
       "o", "m", "p", "l", "e", "t", "e", "d", "\"", ":", " ", "f", "a", "l",
       "s", "e", "}" >>

\* {"userId": 1, "id": 1, "title": "t", "completed": 0}
BodyIntCompleted ==
    << "{", "\"", "u", "s", "e", "r", "I", "d", "\"", ":", " ", "1", ",", " ",
       "\"", "i", "d", "\"", ":", " ", "1", ",", " ", "\"", "t", "i", "t", "l",
       "e", "\"", ":", " ", "\"", "t", "\"", ",", " ", "\"", "c", "o", "m", "p",
       "l", "e", "t", "e", "d", "\"", ":", " ", "0", "}" >>

\* {"userId": 1, "id": "1", "title": "t", "completed": false}
BodyStrId ==
    << "{", "\"", "u", "s", "e", "r", "I", "d", "\"", ":", " ", "1", ",", " ",
       "\"", "i", "d", "\"", ":", " ", "\"", "1", "\"", ",", " ", "\"", "t", "i",
       "t", "l", "e", "\"", ":", " ", "\"", "t", "\"", ",", " ", "\"", "c", "o",
       "m", "p", "l", "e", "t", "e", "d", "\"", ":", " ", "f", "a", "l", "s",
       "e", "}" >>

\* [{"userId": 1, "id": 2, "title": "u", "completed": true}, {"userId": 1, "id": 1, "title": "t", "completed": false}]
BodyArray ==
    << "[", "{", "\"", "u", "s", "e", "r", "I", "d", "\"", ":", " ", "1", ",",
       " ", "\"", "i", "d", "\"", ":", " ", "2", ",", " ", "\"", "t", "i", "t",
       "l", "e", "\"", ":", " ", "\"", "u", "\"", ",", " ", "\"", "c", "o", "m",
       "p", "l", "e", "t", "e", "d", "\"", ":", " ", "t", "r", "u", "e", "}",
       ",", " ", "{", "\"", "u", "s", "e", "r", "I", "d", "\"", ":", " ", "1",
       ",", " ", "\"", "i", "d", "\"", ":", " ", "1", ",", " ", "\"", "t", "i",
       "t", "l", "e", "\"", ":", " ", "\"", "t", "\"", ",", " ", "\"", "c", "o",
       "m", "p", "l", "e", "t", "e", "d", "\"", ":", " ", "f", "a", "l", "s",
       "e", "}", "]" >>

\* [{"userId": 1, "id": 2, "title": "u", "completed": true}, {}]
BodyArrayBad ==
    << "[", "{", "\"", "u", "s", "e", "r", "I", "d", "\"", ":", " ", "1", ",",
       " ", "\"", "i", "d", "\"", ":", " ", "2", ",", " ", "\"", "t", "i", "t",
       "l", "e", "\"", ":", " ", "\"", "u", "\"", ",", " ", "\"", "c", "o", "m",
       "p", "l", "e", "t", "e", "d", "\"", ":", " ", "t", "r", "u", "e", "}",
       ",", " ", "{", "}", "]" >>

\* []
BodyEmptyArray ==
    << "[", "]" >>

\* <html>
BodyNotJson ==
    << "<", "h", "t", "m", "l", ">" >>

\* 1
BodyScalar ==
    << "1" >>

\* the bodies the server of the Todo client sends
ClientBodies ==
    { BodyEmptyObject, BodyTodo, BodyTodo2, BodyNoTitle, BodyBoolId, BodyIntCompleted, BodyStrId,
      BodyArray, BodyArrayBad, BodyEmptyArray, BodyNotJson, BodyScalar }

StatusCodes == { 200, 404 }

TransportErrors == { "Timeout", "ConnectionError" }

\* the Response requests.get returns; ok is requests' status_code < 400
Response(oid, u, status, content) ==
    [tag |-> "Response", oid |-> oid, url |-> u, status_code |-> status,
     ok |-> (status < 400), content |-> content, elapsed |-> 1]

\* JSON values as Python values: a scalar has its type t and its repr v, a
\* dict its entries (a set of <<key, value>>), a list its elems
JInt(v) == [t |-> "int", v |-> v]

JStr(v) == [t |-> "str", v |-> v]

JBool(v) == [t |-> "bool", v |-> v]

JDict(entries) == [t |-> "dict", entries |-> entries]

JList(elems) == [t |-> "list", elems |-> elems]

JTodo(userId, id, title, completed) ==
    JDict({ <<"userId", userId>>, <<"id", id>>, <<"title", title>>, <<"completed", completed>> })

\* the value response.json() decodes from each body the server sends
Json(content) ==
    CASE content = BodyEmptyObject  -> JDict({})
      [] content = BodyTodo         -> JTodo(JInt("1"), JInt("1"), JStr("t"), JBool("False"))
      [] content = BodyTodo2        -> JTodo(JInt("1"), JInt("2"), JStr("u"), JBool("True"))
      [] content = BodyNoTitle      -> JDict({ <<"userId", JInt("1")>>, <<"id", JInt("1")>>,
                                               <<"completed", JBool("False")>> })
      [] content = BodyBoolId       -> JTodo(JInt("1"), JBool("True"), JStr("t"), JBool("False"))
      [] content = BodyIntCompleted -> JTodo(JInt("1"), JInt("1"), JStr("t"), JInt("0"))
      [] content = BodyStrId        -> JTodo(JInt("1"), JStr("1"), JStr("t"), JBool("False"))
      [] content = BodyArray        -> JList(<< JTodo(JInt("1"), JInt("2"), JStr("u"), JBool("True")),
                                                JTodo(JInt("1"), JInt("1"), JStr("t"), JBool("False")) >>)
      [] content = BodyArrayBad     -> JList(<< JTodo(JInt("1"), JInt("2"), JStr("u"), JBool("True")),
                                                JDict({}) >>)
      [] content = BodyEmptyArray   -> JList(<<>>)
      [] content = BodyScalar       -> JInt("1")

\* response.json(): a body that is not JSON raises JSONDecodeError (a ValueError)
response_json(resp) ==
    IF resp.content = BodyNotJson
    THEN Raise("JSONDecodeError", "Expecting value: line 1 column 1 (char 0)")
    ELSE Return(Json(resp.content))

-----------------------------------------------------------------------------
(* str.join *)

\* a join that leaves the separator out
RECURSIVE JoinNoSep(_, _)
JoinNoSep(sep, parts) ==
    IF Len(parts) = 0 THEN <<>> ELSE parts[1] \o JoinNoSep(sep, Tail(parts))

\* a join that skips empty parts
RECURSIVE JoinSkipEmpty(_, _)
JoinSkipEmpty(sep, parts) ==
    IF Len(parts) = 0 THEN <<>>
    ELSE IF Len(parts) = 1 THEN parts[1]
    ELSE IF parts[1] = <<>> THEN JoinSkipEmpty(sep, Tail(parts))
    ELSE IF JoinSkipEmpty(sep, Tail(parts)) = <<>> THEN parts[1]
    ELSE parts[1] \o sep \o JoinSkipEmpty(sep, Tail(parts))

\* sep.join(parts)
RECURSIVE Join(_, _)
Join(sep, parts) ==
    IF Len(parts) = 0 THEN <<>>
    ELSE IF Len(parts) = 1 THEN parts[1]
    ELSE parts[1] \o sep \o Join(sep, Tail(parts))

-----------------------------------------------------------------------------
(* Todo *)

\* isinstance(attr, field.type); bool is a subclass of int
IsInstance(jv, type) ==
    CASE type = "int"  -> jv.t \in {"int", "bool"}
      [] type = "str"  -> jv.t = "str"
      [] type = "bool" -> jv.t = "bool"

TodoFields == << [name |-> "id", type |-> "int"], [name |-> "user_id", type |-> "int"],
                 [name |-> "title", type |-> "str"], [name |-> "completed", type |-> "bool"] >>

\* validate: the first field, in declaration order, whose value is not of its type
validate(instance) ==
    LET bad == {i \in 1..Len(TodoFields) : ~IsInstance(instance[TodoFields[i].name], TodoFields[i].type)}
    IN  IF bad = {} THEN Return(instance)
        ELSE LET i == CHOOSE j \in bad : \A k \in bad : j <= k
             IN  Raise("TypeError", Format("Field {0.name} (value='{2}') is of type {1}, should be {0.type}",
                                           << TodoFields[i].name, instance[TodoFields[i].name].t,
                                              instance[TodoFields[i].name].v >>))

\* Todo(id, user_id, title, completed) with __post_init__
Todo(id, user_id, title, completed) ==
    validate([tag |-> "Todo", id |-> id, user_id |-> user_id, title |-> title, completed |-> completed])

\* a from_d that passes d['userId'] as id and d['id'] as user_id
from_d_swapped(d) ==
    LET wanted  == << "id", "userId", "title", "completed" >>
        missing == {i \in 1..4 : wanted[i] \notin Keys(d.entries)}
    IN  IF d.t # "dict"
        THEN Raise("TypeError", "indices must be integers")
        ELSE IF missing # {}
        THEN Raise("KeyError", wanted[CHOOSE j \in missing : \A k \in missing : j <= k])
        ELSE Todo(Lookup(d.entries, "userId"), Lookup(d.entries, "id"),
                  Lookup(d.entries, "title"), Lookup(d.entries, "completed"))

\* Todo.from_d: d['id'], d['userId'], d['title'], d['completed'] are read in this order;
\* d['id'] on a list, a str, an int or None is a TypeError
from_d(d) ==
    LET wanted  == << "id", "userId", "title", "completed" >>
        missing == {i \in 1..4 : wanted[i] \notin Keys(d.entries)}
    IN  IF d.t # "dict"
        THEN Raise("TypeError", "indices must be integers")
        ELSE IF missing # {}
        THEN Raise("KeyError", wanted[CHOOSE j \in missing : \A k \in missing : j <= k])
        ELSE Todo(Lookup(d.entries, "id"), Lookup(d.entries, "userId"),
                  Lookup(d.entries, "title"), Lookup(d.entries, "completed"))

-----------------------------------------------------------------------------
(* The functions of the response pipeline: (response) -> result *)

\* a transform that returns a copy of the response
null_tranform_copy(resp) == Return([resp EXCEPT !.oid = resp.oid + 100])

\* a null_tranform that classifies the response as default_error_handler does
null_tranform_classifying(resp) ==
    IF ~resp.ok
    THEN Raise("Exception", Format("Failed request to {} status:{} {}",
                                   << resp.url, resp.status_code, SlicePrefix(resp.content, ExcerptLen) >>))
    ELSE Return(resp)

null_tranform(resp) == Return(resp)

null_logger(resp) == Return(resp)

simple_logger(resp) ==
    [kind |-> "return", value |-> resp,
     out |-> << Format("{} URL:{} response:{} in {} sec",
                       << "now", resp.url, resp.status_code, resp.elapsed >>) >>]

\* an error handler with the test on response.ok inverted
default_error_handler_inverted(resp) ==
    IF resp.ok
    THEN Raise("Exception", Format("Failed request to {} status:{} {}",
                                   << resp.url, resp.status_code, SlicePrefix(resp.content, ExcerptLen) >>))
    ELSE Return(resp)

\* an error handler that returns a copy of the response
default_error_handler_copy(resp) ==
    IF ~resp.ok
    THEN Raise("Exception", Format("Failed request to {} status:{} {}",
                                   << resp.url, resp.status_code, SlicePrefix(resp.content, ExcerptLen) >>))
    ELSE Return([resp EXCEPT !.oid = resp.oid + 100])

default_error_handler(resp) ==
    IF ~resp.ok
    THEN Raise("Exception", Format("Failed request to {} status:{} {}",
                                   << resp.url, resp.status_code, SlicePrefix(resp.content, ExcerptLen) >>))
    ELSE Return(resp)

to_todo(resp) ==
    LET j == response_json(resp)
    IN  IF j.kind = "raise" THEN j ELSE from_d(j.value)

\* a to_todo_or_none that catches AttributeError alone
to_todo_or_none_attribute_only(resp) ==
    LET r == to_todo(resp)
    IN  IF r.kind = "raise" /\ r.value.type \in {"AttributeError"} THEN Return(None) ELSE r

\* a to_todo_or_none that catches every Exception
to_todo_or_none_catch_all(resp) ==
    LET r == to_todo(resp)
    IN  IF r.kind = "raise" THEN Return(None) ELSE r

\* to_todo_or_none: except (KeyError, AttributeError) returns None
to_todo_or_none(resp) ==
    LET r == to_todo(resp)
    IN  IF r.kind = "raise" /\ r.value.type \in {"KeyError", "AttributeError"} THEN Return(None) ELSE r

\* a comprehension that skips the elements that fail to decode
RECURSIVE MapFromDSkipping(_)
MapFromDSkipping(xs) ==
    IF xs = <<>> THEN Return(<<>>)
    ELSE LET first == from_d(Head(xs))
             rest  == MapFromDSkipping(Tail(xs))
         IN  IF first.kind = "raise" THEN rest
             ELSE Return(<< first.value >> \o rest.value)

\* [Todo.from_d(x) for x in xs]: the list of the results, or the first failure
RECURSIVE MapFromD(_)
MapFromD(xs) ==
    IF xs = <<>> THEN Return(<<>>)
    ELSE LET first == from_d(Head(xs))
         IN  IF first.kind = "raise" THEN first
             ELSE LET rest == MapFromD(Tail(xs))
                  IN  IF rest.kind = "raise" THEN rest
                      ELSE Return(<< first.value >> \o rest.value)

\* what "for x in" iterates over: the elements of a list, the keys of a dict
Iterate(j) ==
    CASE j.t = "list" -> Return(j.elems)
      [] j.t = "dict" -> Return([i \in 1..Cardinality(Keys(j.entries)) |-> JStr("key")])
      [] OTHER        -> Raise("TypeError", "object is not iterable")

to_todos(resp) ==
    LET j  == response_json(resp)
        xs == IF j.kind = "raise" THEN j ELSE Iterate(j.value)
        r  == IF xs.kind = "raise" THEN xs ELSE MapFromD(xs.value)
    IN  IF r.kind = "raise" THEN r
        ELSE Return([tag |-> "list", elems |-> r.value])

\* calling the function named fn
\* the integer functions of the README
adder(a, b) == a + b

\* multiply(n) returns wrapper, and wrapper(m) returns m * n
multiply(n, m) == m * n

\* functools.partial(adder, 1) and functools.partial(adder, 2)
add_one(b) == adder(1, b)

add_two(b) == adder(2, b)

Apply(fn, x) ==
    CASE fn = "null_tranform"         -> null_tranform(x)
      [] fn = "null_logger"           -> null_logger(x)
      [] fn = "simple_logger"         -> simple_logger(x)
      [] fn = "default_error_handler" -> default_error_handler(x)
      [] fn = "to_todo"               -> to_todo(x)
      [] fn = "to_todo_or_none"       -> to_todo_or_none(x)
      [] fn = "to_todos"              -> to_todos(x)
      [] fn = "add_one"               -> Return(add_one(x))
      [] fn = "multiply(3)"           -> Return(multiply(3, x))
      [] fn = "add_two"               -> Return(add_two(x))

-----------------------------------------------------------------------------
(* The n-ary compose *)

Fn(name) == [tag |-> "fn", name |-> name]

\* a compose_two that returns g(f(x))
compose_two_swapped(f, g) == [tag |-> "c", f |-> g, g |-> f]

\* the closure c of compose_two(f, g): c(x) = f(g(x))
compose_two(f, g) == [tag |-> "c", f |-> f, g |-> g]

\* a compose that folds the functions in the opposite order
RECURSIVE compose_from_the_right(_)
compose_from_the_right(funcs) ==
    IF Len(funcs) = 1 THEN funcs[1]
    ELSE compose_two(compose_from_the_right(Tail(funcs)), funcs[1])

\* functools.reduce(compose_two, funcs): a left fold, funcs not empty
RECURSIVE compose(_)
compose(funcs) ==
    IF Len(funcs) = 1 THEN funcs[1]
    ELSE compose_two(compose(SubSeq(funcs, 1, Len(funcs) - 1)), funcs[Len(funcs)])

\* reversed(funcs)
Reversed(funcs) == [i \in 1..Len(funcs) |-> funcs[Len(funcs) + 1 - i]]

\* a README compose that does not reverse its arguments
README_compose_unreversed(funcs) == compose(funcs)

\* the compose of the README: functools.reduce(compose_two, reversed(funcs))
README_compose(funcs) == compose(Reversed(funcs))

\* a call order that starts with the outer function
RECURSIVE CallOrderOuterFirst(_)
CallOrderOuterFirst(fn) ==
    IF fn.tag = "fn" THEN << fn.name >>
    ELSE CallOrderOuterFirst(fn.f) \o CallOrderOuterFirst(fn.g)

\* the named functions that calling fn calls, in the order it calls them:
\* c(x) evaluates g(x) and then f of it
RECURSIVE CallOrder(_)
CallOrder(fn) ==
    IF fn.tag = "fn" THEN << fn.name >>
    ELSE CallOrder(fn.g) \o CallOrder(fn.f)

-----------------------------------------------------------------------------
(* to_get and the fetch function f *)

to_get(base_url, headers, error_handler, logger) ==
    [base_url |-> base_url, headers |-> headers, error_handler |-> error_handler, logger |-> logger]

NoRequest == [called |-> FALSE]

NoOutcome == [kind |-> "none"]

\* no composition is under way
ComposeIdle ==
    /\ readme = FALSE
    /\ given = <<>>
    /\ input = 0
    /\ composed = None
    /\ todo = <<>>
    /\ acc = 0
    /\ calls = <<>>
    /\ cpc = "idle"

\* a local that no assignment has bound yet
Unbound == [tag |-> "unbound"]

\* runner has not been called
RunnerIdle ==
    /\ iteration = 4
    /\ argv = <<>>
    /\ pargs = None
    /\ exit_code = 1
    /\ out = Unbound
    /\ caught = None
    /\ events = <<>>
    /\ result = NoOutcome
    /\ rpc = "idle"
    /\ nruns = 0

\* the closures compute returns: two of each version
Closures == {"f", "g"}

\* no closure has been called
ClosureIdle ==
    /\ wrapped = "op.add"
    /\ cache = [c \in Closures |-> {}]
    /\ num_times_called = [c \in Closures |-> 0]
    /\ log = <<>>

Init ==
    /\ ComposeIdle
    /\ RunnerIdle
    /\ ClosureIdle
    /\ client = None
    /\ entry = "f"
    /\ other = None
    /\ callers = <<>>
    /\ explicit_headers = { << "x-my-header", "12345" >> }
    /\ \E b \in BaseUrls, h \in {"None", "DEFAULT_HEADER"},
          e \in {"None", "default_error_handler"},
          l \in {"None", "null_logger", "simple_logger"} :
            rget = to_get(b, h, e, l)
    /\ DEFAULT_HEADER \in HeaderSets
    /\ defaults0 = DEFAULT_HEADER
    /\ overlays = <<>>
    /\ ncalls = 0
    /\ pc = "idle"
    /\ args = [segment |-> <<>>, kw |-> [none |-> TRUE]]
    /\ url = <<>>
    /\ kw = [none |-> TRUE]
    /\ stages = <<>>
    /\ pending = <<>>
    /\ request = NoRequest
    /\ get_result = NoOutcome
    /\ val = None
    /\ trace = <<>>
    /\ stdout = <<>>
    /\ outcome = NoOutcome

\* f(segment, **kw) of the pipeline p up to the composition of the chain
\* (lines 1529-1540), entered through via
CallOn(p, via, segment, kwargs) ==
    /\ pc \in {"idle", "done"}
    /\ entry' = via
    /\ ncalls < MaxCalls
    /\ ncalls' = ncalls + 1
    /\ args' = [segment |-> segment, kw |-> kwargs]
    /\ url' = Join(<< "/" >>, << p.base_url, segment >>)
    /\ request' = NoRequest
    /\ get_result' = NoOutcome
    /\ val' = None
    /\ trace' = <<>>
    /\ stdout' = <<>>
    /\ LET h == IF "headers" \in DOMAIN kwargs THEN kwargs.headers ELSE {}
           transform_func == IF "transform" \in DOMAIN kwargs THEN kwargs.transform ELSE "null_tranform"
           err_handler == IF p.error_handler = "None" THEN "null_tranform" ELSE p.error_handler
           logger_func == IF p.logger = "None" THEN "null_tranform" ELSE p.logger
       IN  IF p.headers = "None"
           THEN \* headers.update(h) on None
                /\ pc' = "done"
                /\ outcome' = Raise("AttributeError", "'NoneType' object has no attribute 'update'")
                /\ kw' = [none |-> TRUE]
                /\ stages' = <<>>
                /\ pending' = <<>>
                /\ UNCHANGED << DEFAULT_HEADER, explicit_headers, overlays >>
           ELSE /\ DEFAULT_HEADER' = IF p.headers = "DEFAULT_HEADER"
                                     THEN DictUpdate(DEFAULT_HEADER, h) ELSE DEFAULT_HEADER
                /\ explicit_headers' = IF p.headers = "explicit_headers"
                                       THEN DictUpdate(explicit_headers, h) ELSE explicit_headers
                /\ overlays' = Append(overlays, h)
                /\ kw' = [k \in (DOMAIN kwargs \cup {"headers"}) \ {"transform", "none"} |->
                            IF k = "headers" THEN p.headers ELSE kwargs[k]]
                /\ stages' = << transform_func, err_handler, logger_func >>
                /\ pending' = CallOrder(compose(<< Fn(transform_func), Fn(err_handler), Fn(logger_func) >>))
                /\ pc' = "get"
                /\ outcome' = NoOutcome
    /\ UNCHANGED << client, other, rget, defaults0, composeVars, runnerVars, closureVars >>

\* rget(segment, **kw)
Call(segment, kwargs) == CallOn(rget, "f", segment, kwargs) /\ callers' = callers

\* the content of the dict object that a headers reference refers to
Deref(ref) == IF ref = "explicit_headers" THEN explicit_headers ELSE DEFAULT_HEADER

\* a requests.get that is given the headers and no other option
GetArgumentsHeadersOnly ==
    [called |-> TRUE, url |-> url, kw |-> [headers |-> Deref(kw.headers)]]

\* the arguments requests.get(url, **kw) sees: kw['headers'] is the dict itself
GetArguments ==
    [called |-> TRUE, url |-> url,
     kw |-> [k \in DOMAIN kw |-> IF k = "headers" THEN Deref(kw[k]) ELSE kw[k]]]

\* requests.get(url, **kw) returns a response (line 1542)
RequestsGet(status, content) ==
    /\ pc = "get"
    /\ request' = GetArguments
    /\ get_result' = Return(Response(ncalls, url, status, content))
    /\ val' = get_result'.value
    /\ pc' = "transform"
    /\ UNCHANGED << client, other, callers, explicit_headers, entry, rget, DEFAULT_HEADER, defaults0, overlays, ncalls, args, url, kw,
                    stages, pending, trace, stdout, outcome, composeVars, runnerVars, closureVars >>

\* a fetch that catches the transport failure and hands None to the chain
RequestsGetRaisesCaught(err) ==
    /\ pc = "get"
    /\ request' = GetArguments
    /\ get_result' = Raise(err, url)
    /\ val' = None
    /\ trace' = << [fn |-> stages[3], arg |-> None, res |-> [kind |-> "return", value |-> None]] >>
    /\ outcome' = Return(None)
    /\ pc' = "done"
    /\ UNCHANGED << client, other, callers, explicit_headers, entry, rget, DEFAULT_HEADER, defaults0, overlays, ncalls, args, url, kw,
                    stages, pending, stdout, composeVars, runnerVars, closureVars >>

\* requests.get(url, **kw) raises: nothing in f catches it
RequestsGetRaises(err) ==
    /\ pc = "get"
    /\ request' = GetArguments
    /\ get_result' = Raise(err, url)
    /\ outcome' = get_result'
    /\ pc' = "done"
    /\ UNCHANGED << client, other, callers, explicit_headers, entry, rget, DEFAULT_HEADER, defaults0, overlays, ncalls, args, url, kw,
                    stages, pending, val, trace, stdout, composeVars, runnerVars, closureVars >>

\* transform(...): the next function of the chain is called with the value so far
Transform ==
    /\ pc = "transform"
    /\ pending # <<>>
    /\ LET fn == Head(pending)
           r  == Apply(fn, val)
       IN  /\ trace' = Append(trace, [fn |-> fn, arg |-> val, res |-> [kind |-> r.kind, value |-> r.value]])
           /\ stdout' = stdout \o r.out
           /\ IF r.kind = "raise"
              THEN /\ outcome' = [r EXCEPT !.out = <<>>]
                   /\ pc' = "done"
                   /\ UNCHANGED << val, pending >>
              ELSE /\ val' = r.value
                   /\ pending' = Tail(pending)
                   /\ IF Tail(pending) = <<>>
                      THEN outcome' = Return(r.value) /\ pc' = "done"
                      ELSE outcome' = outcome /\ pc' = "transform"
    /\ UNCHANGED << client, other, callers, explicit_headers, entry, rget, DEFAULT_HEADER, defaults0, overlays, ncalls, args, url, kw,
                    stages, request, get_result, composeVars, runnerVars, closureVars >>

Next ==
    \/ \E s \in Segments, k \in KwInputs : Call(s, k)
    \/ \E st \in StatusCodes, c \in Bodies : RequestsGet(st, c)
    \/ \E e \in TransportErrors : RequestsGetRaises(e)
    \/ Transform

Spec == Init /\ [][Next]_vars

-----------------------------------------------------------------------------
(* TodoClient, final revision *)

\* 'todos' and the ix of 'todos/{}'.format(ix)
Todos == << "t", "o", "d", "o", "s" >>

Ids == { << "1" >>, << "X" >> }

\* 'todos/{}'.format(ix)
TodosSegment(ix) == Todos \o << "/" >> \o ix

\* TodoClient(base_url, headers=None, logger=simple_logger, error_handler=default_error_handler):
\* self.headers is the dict TodoClient.DEFAULT_HEADER itself when headers is None;
\* given_headers keeps the argument the constructor was called with
TodoClient(base_url, headers, logger, error_handler) ==
    LET self_headers == IF headers = "None" THEN "DEFAULT_HEADER" ELSE headers
    IN  [tag |-> "TodoClient", given_headers |-> headers, base_url |-> base_url, headers |-> self_headers,
         logger |-> logger, error_handler |-> error_handler,
         rget |-> to_get(base_url, self_headers, error_handler, logger)]

InitClient ==
    /\ ComposeIdle
    /\ RunnerIdle
    /\ ClosureIdle
    /\ \E l \in {"simple_logger", "null_logger"}, e \in {"default_error_handler", "None"} :
            client = TodoClient(BASE_URL, "None", l, e)
    /\ rget = client.rget
    /\ entry = "f"
    /\ other = None
    /\ callers = <<>>
    /\ explicit_headers = { << "x-my-header", "12345" >> }
    /\ DEFAULT_HEADER = { << "x-my-header", "12345" >> }
    /\ defaults0 = DEFAULT_HEADER
    /\ overlays = <<>>
    /\ ncalls = 0
    /\ pc = "idle"
    /\ args = [segment |-> <<>>, kw |-> [none |-> TRUE]]
    /\ url = <<>>
    /\ kw = [none |-> TRUE]
    /\ stages = <<>>
    /\ pending = <<>>
    /\ request = NoRequest
    /\ get_result = NoOutcome
    /\ val = None
    /\ trace = <<>>
    /\ stdout = <<>>
    /\ outcome = NoOutcome

\* the client named who
ClientOf(who) == IF who = "client" THEN client ELSE other

\* a construction that gives the new client a dict of its own for the default
NewClientOwnDefault(headers) ==
    /\ pc \in {"idle", "done"}
    /\ other = None
    /\ other' = [TodoClient(BASE_URL, headers, "simple_logger", "default_error_handler")
                    EXCEPT !.headers = "explicit_headers",
                           !.rget = to_get(BASE_URL, "explicit_headers", "default_error_handler",
                                           "simple_logger")]
    /\ UNCHANGED << client, callers, explicit_headers, entry, rget, DEFAULT_HEADER, defaults0, overlays,
                    ncalls, pc, args, url, kw, stages, pending, request, get_result, val, trace,
                    stdout, outcome, composeVars, runnerVars, closureVars >>

\* other = TodoClient(BASE_URL) or other = TodoClient(BASE_URL, headers=explicit_headers)
NewClient(headers) ==
    /\ pc \in {"idle", "done"}
    /\ other = None
    /\ other' = TodoClient(BASE_URL, headers, "simple_logger", "default_error_handler")
    /\ UNCHANGED << client, callers, explicit_headers, entry, rget, DEFAULT_HEADER, defaults0, overlays,
                    ncalls, pc, args, url, kw, stages, pending, request, get_result, val, trace,
                    stdout, outcome, composeVars, runnerVars, closureVars >>

\* who.rget(segment, transform=t): the pipeline of the client, called directly
ClientRget(who, ix, t) ==
    /\ ClientOf(who) # None
    /\ callers' = Append(callers, who)
    /\ CallOn(ClientOf(who).rget, "f", TodosSegment(ix), [transform |-> t])

\* who.rget(segment, headers=h)
ClientRgetWithHeaders(who, ix, h) ==
    /\ ClientOf(who) # None
    /\ callers' = Append(callers, who)
    /\ CallOn(ClientOf(who).rget, "f", TodosSegment(ix), [headers |-> h])

\* who.get_todos()
get_todos(who) ==
    /\ ClientOf(who) # None
    /\ callers' = Append(callers, who)
    /\ CallOn(ClientOf(who).rget, "get_todos", Todos, [transform |-> "to_todos"])

\* a get_todo_by_id that goes through the pipeline of the client
get_todo_by_id_on_client_pipeline(who, ix) ==
    /\ ClientOf(who) # None
    /\ callers' = Append(callers, who)
    /\ CallOn(ClientOf(who).rget, "get_todo_by_id", TodosSegment(ix), [transform |-> "to_todo_or_none"])

\* a get_todo_by_id that logs through the logger of the client
get_todo_by_id_with_client_logger(who, ix) ==
    /\ ClientOf(who) # None
    /\ callers' = Append(callers, who)
    /\ LET self == ClientOf(who)
           rg == to_get(self.base_url, self.headers, "None", self.logger)
       IN  CallOn(rg, "get_todo_by_id", TodosSegment(ix), [transform |-> "to_todo_or_none"])

\* who.get_todo_by_id(ix): a pipeline of its own, without an error handler
get_todo_by_id(who, ix) ==
    /\ ClientOf(who) # None
    /\ callers' = Append(callers, who)
    /\ LET self == ClientOf(who)
           rg == to_get(self.base_url, self.headers, "None", "simple_logger")
       IN  CallOn(rg, "get_todo_by_id", TodosSegment(ix), [transform |-> "to_todo_or_none"])

ClientNames == {"client", "other"}

NextClient ==
    \/ \E who \in ClientNames, ix \in Ids, t \in {"to_todo", "to_todo_or_none", "to_todos"} :
           ClientRget(who, ix, t)
    \/ \E who \in ClientNames, h \in Overlays \ {{}} : ClientRgetWithHeaders(who, << "1" >>, h)
    \/ \E who \in ClientNames : get_todos(who)
    \/ \E who \in ClientNames, ix \in Ids : get_todo_by_id(who, ix)
    \/ \E headers \in {"None", "explicit_headers"} : NewClient(headers)
    \/ \E st \in StatusCodes, c \in ClientBodies : RequestsGet(st, c)
    \/ \E e \in TransportErrors : RequestsGetRaises(e)
    \/ Transform

SpecClient == InitClient /\ [][NextClient]_vars

-----------------------------------------------------------------------------
(* compose applied to integer functions *)

\* no pipeline was built and no call is under way
PipelineIdle ==
    /\ client = None
    /\ entry = "f"
    /\ other = None
    /\ callers = <<>>
    /\ explicit_headers = { << "x-my-header", "12345" >> }
    /\ rget = to_get(BASE_URL, "DEFAULT_HEADER", "None", "None")
    /\ DEFAULT_HEADER = { << "x-my-header", "12345" >> }
    /\ defaults0 = DEFAULT_HEADER
    /\ overlays = <<>>
    /\ ncalls = 0
    /\ pc = "idle"
    /\ args = [segment |-> <<>>, kw |-> [none |-> TRUE]]
    /\ url = <<>>
    /\ kw = [none |-> TRUE]
    /\ stages = <<>>
    /\ pending = <<>>
    /\ request = NoRequest
    /\ get_result = NoOutcome
    /\ val = None
    /\ trace = <<>>
    /\ stdout = <<>>
    /\ outcome = NoOutcome

\* add_one, multiply(3) and add_two of the README
IntFuncs == {"add_one", "multiply(3)", "add_two"}

FuncLists == UNION {[1..n -> IntFuncs] : n \in 1..MaxFuncs}

InitCompose ==
    /\ PipelineIdle
    /\ RunnerIdle
    /\ ClosureIdle
    /\ readme \in BOOLEAN
    /\ given \in FuncLists
    /\ input \in 0..MaxInput
    /\ composed = None
    /\ todo = <<>>
    /\ acc = 0
    /\ calls = <<>>
    /\ cpc = "idle"

\* f = compose(funcs) with the compose of the notebooks
NotebookCompose ==
    /\ cpc = "idle"
    /\ ~readme
    /\ composed' = compose([i \in 1..Len(given) |-> Fn(given[i])])
    /\ cpc' = "composed"
    /\ UNCHANGED << readme, given, input, todo, acc, calls, pipelineVars, runnerVars, closureVars >>

\* f = compose(funcs) with the compose of the README
ReadmeCompose ==
    /\ cpc = "idle"
    /\ readme
    /\ composed' = README_compose([i \in 1..Len(given) |-> Fn(given[i])])
    /\ cpc' = "composed"
    /\ UNCHANGED << readme, given, input, todo, acc, calls, pipelineVars, runnerVars, closureVars >>

\* f(x): the closure c is entered with x
ApplyComposed ==
    /\ cpc = "composed"
    /\ todo' = CallOrder(composed)
    /\ acc' = input
    /\ cpc' = "applying"
    /\ UNCHANGED << readme, given, input, composed, calls, pipelineVars, runnerVars, closureVars >>

\* the innermost function not called yet is called with the value so far
CallNext ==
    /\ cpc = "applying"
    /\ todo # <<>>
    /\ LET r == Apply(Head(todo), acc)
       IN  /\ calls' = Append(calls, [fn |-> Head(todo), arg |-> acc, res |-> r.value])
           /\ acc' = r.value
    /\ todo' = Tail(todo)
    /\ cpc' = IF Tail(todo) = <<>> THEN "done" ELSE "applying"
    /\ UNCHANGED << readme, given, input, composed, pipelineVars, runnerVars, closureVars >>

NextCompose ==
    \/ NotebookCompose
    \/ ReadmeCompose
    \/ ApplyComposed
    \/ CallNext

SpecCompose == InitCompose /\ [][NextCompose]_vars

-----------------------------------------------------------------------------
(* The command-line runner, Iterations #3 and #4 *)

\* d.get(k, default)
DictGet(d, k, default) == IF k \in Keys(d) THEN Lookup(d, k) ELSE default

\* the argument lists runner is given; each element is one string of argv
Argvs ==
    { << "hello", "my-name" >>,
      << "goodbye", "my-new-name" >>,
      << "hello", "--help" >>,
      << "--version" >>,
      << "-" >>,
      << >>,
      << "hello" >>,
      << "hello", "my-name", "extra" >>,
      << "hello", "my-name", "--num-times", "2" >>,
      << "hello", "my-name", "--num-times", "x" >>,
      << "goodbye", "my-new-name", "--num-times", "2" >>,
      << "goodbye", "--level", "DEBUG", "--log-file", "log.txt", "my-new-name" >> }

\* the strings of Argvs that start with "-" and are longer than "-"
IsOptionString(t) ==
    t \in {"-h", "--help", "--version", "--level", "--log-file", "--num-times"}

\* int(v) of type=int, for the strings for which it returns
IntStrings == {"0", "1", "2"}

IntOf(v) == CASE v = "0" -> 0 [] v = "1" -> 1 [] v = "2" -> 2

\* the sub-parsers _add_to_sp adds, with the func each sets as default
SubCommands == { << "hello", "run_hello" >>, << "goodbye", "run_goodbye" >> }

\* the options of a sub-parser that take one value: --level and --log-file
\* on both (_add_opt_logging), --num-times on hello (add_opt_hello)
ValueOptions(cmd) ==
    IF cmd = "hello" THEN {"--level", "--log-file", "--num-times"} ELSE {"--level", "--log-file"}

\* the Namespace a sub-parser starts from: its defaults, name not yet given
Defaults(cmd) ==
    IF cmd = "hello"
    THEN [tag |-> "Namespace", func |-> "run_hello", level |-> "INFO", log_file |-> "None",
          num_times |-> 1]
    ELSE [tag |-> "Namespace", func |-> "run_goodbye", level |-> "INFO", log_file |-> "None"]

\* the Namespace ns with the positional name
WithName(ns, v) ==
    [k \in DOMAIN ns \cup {"name"} |-> IF k = "name" THEN v ELSE ns[k]]

\* a sub-parser reads the strings toks into ns; extras: an unrecognized
\* string was seen.  -h exits with 0 where it stands, the errors exit with 2
RECURSIVE ParseSub(_, _, _, _)
ParseSub(cmd, toks, ns, extras) ==
    IF toks = <<>>
    THEN IF "name" \notin DOMAIN ns \/ extras
         THEN Raise("SystemExit", "2")
         ELSE Return(ns)
    ELSE LET t == Head(toks)
         IN  IF t \in {"-h", "--help"} THEN Raise("SystemExit", "0")
             ELSE IF t \in ValueOptions(cmd)
             THEN IF Len(toks) < 2 \/ IsOptionString(toks[2]) THEN Raise("SystemExit", "2")
                  ELSE IF t = "--level"
                       THEN ParseSub(cmd, Tail(Tail(toks)), [ns EXCEPT !.level = toks[2]], extras)
                  ELSE IF t = "--log-file"
                       THEN ParseSub(cmd, Tail(Tail(toks)), [ns EXCEPT !.log_file = toks[2]], extras)
                  ELSE IF toks[2] \in IntStrings
                       THEN ParseSub(cmd, Tail(Tail(toks)), [ns EXCEPT !.num_times = IntOf(toks[2])], extras)
                  ELSE Raise("SystemExit", "2")
             ELSE IF IsOptionString(t) \/ "name" \in DOMAIN ns
             THEN ParseSub(cmd, Tail(toks), ns, TRUE)
             ELSE ParseSub(cmd, Tail(toks), WithName(ns, t), extras)

\* get_parser().parse_args(a): --version and -h exit with 0, a first string
\* that is no sub-command exits with 2, no string at all gives an empty Namespace
parse_args(a) ==
    IF a = <<>> THEN Return([tag |-> "Namespace"])
    ELSE IF a[1] \in {"-h", "--help", "--version"} THEN Raise("SystemExit", "0")
    ELSE IF a[1] \notin Keys(SubCommands) THEN Raise("SystemExit", "2")
    ELSE ParseSub(a[1], Tail(a), Defaults(a[1]), FALSE)

\* the names a sub-command can raise an exception as; SystemExit and
\* KeyboardInterrupt are not subclasses of Exception
RaisedAs == {"ZeroDivisionError", "IOError", "ValueError", "KeyError", "SystemExit", "KeyboardInterrupt"}

\* ex.__class__.__name__ of an exception raised as cls: IOError is another
\* name of the class OSError
ClassName(cls) == IF cls = "IOError" THEN "OSError" ELSE cls

\* isinstance(ex, Exception)
IsException(ex) == ex.type \notin {"SystemExit", "KeyboardInterrupt"}

\* error_handler(ex, default_error_code)
error_handler(ex, default) ==
    LET d == { << "ZeroDivisionError", 7 >>, << "IOError", 3 >>, << "ValueError", 4 >> }
    IN  DictGet(d, ex.type, default)

\* runner(argv) up to the call of parse_args
runner(a, it) ==
    /\ rpc \in {"idle", "done"}
    /\ nruns < MaxRuns
    /\ nruns' = nruns + 1
    /\ iteration' = it
    /\ argv' = a
    /\ exit_code' = 1
    /\ pargs' = None
    /\ out' = Unbound
    /\ caught' = None
    /\ events' = <<>>
    /\ result' = NoOutcome
    /\ rpc' = "parse"
    /\ UNCHANGED << pipelineVars, composeVars, closureVars >>

\* a runner that goes on to the epilogue when the parser exits
ParseArgsExitSwallowed ==
    /\ rpc = "parse"
    /\ LET r == parse_args(argv)
       IN  IF r.kind = "raise"
           THEN result' = result /\ rpc' = "epilogue" /\ pargs' = pargs
           ELSE pargs' = r.value /\ rpc' = "setup" /\ result' = result
    /\ UNCHANGED << iteration, argv, exit_code, out, caught, events, nruns, pipelineVars, composeVars, closureVars >>

\* pargs = p.parse_args(argv): a SystemExit of the parser leaves runner
ParseArgs ==
    /\ rpc = "parse"
    /\ LET r == parse_args(argv)
       IN  IF r.kind = "raise"
           THEN result' = r /\ rpc' = "done" /\ pargs' = pargs
           ELSE pargs' = r.value /\ rpc' = "setup" /\ result' = result
    /\ UNCHANGED << iteration, argv, exit_code, out, caught, events, nruns, pipelineVars, composeVars, closureVars >>

\* setup_logger(pargs.level, pargs.log_file); without a sub-command pargs has no level
SetupLogger ==
    /\ rpc = "setup"
    /\ IF "level" \in DOMAIN pargs
       THEN /\ events' = Append(events, [ev |-> "setup_logger", level |-> pargs.level,
                                         output_file |-> pargs.log_file])
            /\ rpc' = "func"
            /\ result' = result
       ELSE /\ result' = Raise("AttributeError", "'Namespace' object has no attribute 'level'")
            /\ rpc' = "done"
            /\ events' = events
    /\ UNCHANGED << iteration, argv, pargs, exit_code, out, caught, nruns, pipelineVars, composeVars, closureVars >>

\* out = pargs.func(pargs) returns: run_hello and run_goodbye return None
FuncReturns ==
    /\ rpc = "func"
    /\ events' = Append(events, [ev |-> "func", fn |-> pargs.func, how |-> "return", raised_as |-> "None"])
    /\ out' = None
    /\ exit_code' = 0
    /\ rpc' = "epilogue"
    /\ UNCHANGED << iteration, argv, pargs, caught, result, nruns, pipelineVars, composeVars, closureVars >>

\* a runner whose except clause leaves exit_code as it is
FuncRaisesKeepsCode(cls) ==
    /\ rpc = "func"
    /\ LET ex == Raise(ClassName(cls), "").value
           called == Append(events, [ev |-> "func", fn |-> pargs.func, how |-> "raise", raised_as |-> cls])
       IN  IF IsException(ex)
           THEN /\ caught' = ex
                /\ exit_code' = exit_code
                /\ events' = called
                /\ rpc' = "epilogue"
                /\ result' = result
           ELSE /\ result' = Raise(ex.type, "")
                /\ rpc' = "done"
                /\ events' = called
                /\ UNCHANGED << caught, exit_code >>
    /\ UNCHANGED << iteration, argv, pargs, out, nruns, pipelineVars, composeVars, closureVars >>

\* pargs.func(pargs) raises an exception as cls: except Exception catches it,
\* Iteration #3 logs it, Iteration #4 sets exit_code = error_handler(ex)
FuncRaises(cls) ==
    /\ rpc = "func"
    /\ LET ex == Raise(ClassName(cls), "").value
           called == Append(events, [ev |-> "func", fn |-> pargs.func, how |-> "raise", raised_as |-> cls])
       IN  IF IsException(ex)
           THEN /\ caught' = ex
                /\ IF iteration = 4
                   THEN /\ exit_code' = error_handler(ex, default_error_code)
                        /\ events' = Append(called, [ev |-> "error_handler", raised_as |-> cls,
                                                     code |-> error_handler(ex, default_error_code)])
                   ELSE /\ exit_code' = exit_code
                        /\ events' = called
                /\ rpc' = "epilogue"
                /\ result' = result
           ELSE /\ result' = Raise(ex.type, "")
                /\ rpc' = "done"
                /\ events' = called
                /\ UNCHANGED << caught, exit_code >>
    /\ UNCHANGED << iteration, argv, pargs, out, nruns, pipelineVars, composeVars, closureVars >>

\* run_epilogue(exit_code, started_at)
RunEpilogue ==
    /\ rpc = "epilogue"
    /\ events' = Append(events, [ev |-> "run_epilogue", exit_code |-> exit_code])
    /\ rpc' = "return"
    /\ UNCHANGED << iteration, argv, pargs, exit_code, out, caught, result, nruns,
                    pipelineVars, composeVars, closureVars >>

\* return(exit_code) of Iteration #4, return(out) of Iteration #3
RunnerReturn ==
    /\ rpc = "return"
    /\ result' = IF iteration = 4 THEN Return(exit_code)
                 ELSE IF out = Unbound
                 THEN Raise("UnboundLocalError", "local variable 'out' referenced before assignment")
                 ELSE Return(out)
    /\ rpc' = "done"
    /\ UNCHANGED << iteration, argv, pargs, exit_code, out, caught, events, nruns,
                    pipelineVars, composeVars, closureVars >>

InitRunner ==
    /\ PipelineIdle
    /\ ComposeIdle
    /\ RunnerIdle
    /\ ClosureIdle

NextRunner ==
    \/ \E a \in Argvs, it \in {3, 4} : runner(a, it)
    \/ ParseArgs
    \/ SetupLogger
    \/ FuncReturns
    \/ \E cls \in RaisedAs : FuncRaises(cls)
    \/ RunEpilogue
    \/ RunnerReturn

SpecRunner == InitRunner /\ [][NextRunner]_vars

-----------------------------------------------------------------------------
(* The closures of Part 4: the cache of Example #1 and the call counter *)

\* the functions given to compute: op.add (the default) and op.floordiv
Operators == {"op.add", "op.floordiv"}

\* f(m, n); m // 0 raises ZeroDivisionError
CallF(op, m, n) ==
    IF op = "op.add" THEN Return(m + n)
    ELSE IF n = 0 THEN Raise("ZeroDivisionError", "integer division or modulo by zero")
    ELSE Return(m \div n)

\* key in cache, cache[key]
InDict(d, k) == k \in Keys(d)

\* an f2 that stores nothing
f2_without_store(c, m, n) ==
    /\ Len(log) < MaxClosureCalls
    /\ LET key == << m, n >>
       IN  IF InDict(cache[c], key)
           THEN /\ log' = Append(log, [fn |-> "f2", c |-> c, m |-> m, n |-> n, invoked |-> FALSE,
                                       printed |-> TRUE, res |-> Return(Lookup(cache[c], key))])
                /\ cache' = cache
           ELSE LET v == CallF(wrapped, m, n)
                IN  /\ log' = Append(log, [fn |-> "f2", c |-> c, m |-> m, n |-> n, invoked |-> TRUE,
                                           printed |-> FALSE, res |-> v])
                    /\ cache' = cache
    /\ UNCHANGED << wrapped, num_times_called, pipelineVars, composeVars, runnerVars >>

\* f2(m, n) of Example #1 on the closure c: a hit prints and returns the
\* stored value; a miss calls f and stores what it returns, and stores
\* nothing when f raises
f2(c, m, n) ==
    /\ Len(log) < MaxClosureCalls
    /\ LET key == << m, n >>
       IN  IF InDict(cache[c], key)
           THEN /\ log' = Append(log, [fn |-> "f2", c |-> c, m |-> m, n |-> n, invoked |-> FALSE,
                                       printed |-> TRUE, res |-> Return(Lookup(cache[c], key))])
                /\ cache' = cache
           ELSE LET v == CallF(wrapped, m, n)
                IN  /\ log' = Append(log, [fn |-> "f2", c |-> c, m |-> m, n |-> n, invoked |-> TRUE,
                                           printed |-> FALSE, res |-> v])
                    /\ cache' = IF v.kind = "return"
                                THEN [cache EXCEPT ![c] = DictUpdate(cache[c], { << key, v.value >> })]
                                ELSE cache
    /\ UNCHANGED << wrapped, num_times_called, pipelineVars, composeVars, runnerVars >>

\* an f2 that counts the call after f has returned
f2_nonlocal_counts_after(c, m, n) ==
    /\ Len(log) < MaxClosureCalls
    /\ LET v == CallF(wrapped, m, n)
       IN  /\ num_times_called' = IF v.kind = "return"
                                  THEN [num_times_called EXCEPT ![c] = num_times_called[c] + 1]
                                  ELSE num_times_called
           /\ log' = Append(log, [fn |-> "f2_nonlocal", c |-> c, m |-> m, n |-> n, invoked |-> TRUE,
                                  printed |-> FALSE, res |-> v])
    /\ UNCHANGED << wrapped, cache, pipelineVars, composeVars, runnerVars >>

\* f2(m, n) of the nonlocal version on the closure c: num_times_called += 1, then f(m, n)
f2_nonlocal(c, m, n) ==
    /\ Len(log) < MaxClosureCalls
    /\ num_times_called' = [num_times_called EXCEPT ![c] = num_times_called[c] + 1]
    /\ log' = Append(log, [fn |-> "f2_nonlocal", c |-> c, m |-> m, n |-> n, invoked |-> TRUE,
                           printed |-> FALSE, res |-> CallF(wrapped, m, n)])
    /\ UNCHANGED << wrapped, cache, pipelineVars, composeVars, runnerVars >>

\* c.get_num_times()
get_num_times(c) ==
    /\ Len(log) < MaxClosureCalls
    /\ log' = Append(log, [fn |-> "get_num_times", c |-> c, m |-> 0, n |-> 0, invoked |-> FALSE,
                           printed |-> FALSE, res |-> Return(num_times_called[c])])
    /\ UNCHANGED << wrapped, cache, num_times_called, pipelineVars, composeVars, runnerVars >>

\* f = compute(op); g = compute(op), for each version
InitClosure ==
    /\ PipelineIdle
    /\ ComposeIdle
    /\ RunnerIdle
    /\ wrapped \in Operators
    /\ cache = [c \in Closures |-> {}]
    /\ num_times_called = [c \in Closures |-> 0]
    /\ log = <<>>

NextClosure ==
    \/ \E c \in Closures, m \in 0..MaxArg, n \in 0..MaxArg : f2(c, m, n)
    \/ \E c \in Closures, m \in 0..MaxArg, n \in 0..MaxArg : f2_nonlocal(c, m, n)
    \/ \E c \in Closures : get_num_times(c)

SpecClosure == InitClosure /\ [][NextClosure]_vars

-----------------------------------------------------------------------------
(* Properties of the request pipeline *)

\* the response requests.get returned in this call, if it returned one
Got == get_result.kind = "return"

response == get_result.value

\* the overlay h of the current call: kw.get('headers', {})
CallOverlay == IF "headers" \in DOMAIN args.kw THEN args.kw.headers ELSE {}

HasTransform == "transform" \in DOMAIN args.kw

\* u is base, one "/" and segment, character by character
IsJoined(u, base, segment) ==
    /\ Len(u) = Len(base) + 1 + Len(segment)
    /\ \A i \in 1..Len(base) : u[i] = base[i]
    /\ u[Len(base) + 1] = "/"
    /\ \A i \in 1..Len(segment) : u[Len(base) + 1 + i] = segment[i]

\* the separator at position j of u has another "/" right before or right after it
DuplicatedAt(u, j) ==
    \/ (j > 1 /\ u[j - 1] = "/")
    \/ (j < Len(u) /\ u[j + 1] = "/")

\* C1: in every call the chain functions are called in the order logger,
\* error classifier, transform: the logger gets the raw response, the
\* classifier gets what the logger returned, the transform gets what the
\* classifier returned, and no function is called before the one before it
\* has returned.
C1_StageOrder ==
    \A i \in 1..Len(trace) :
        /\ i <= 3
        /\ Got
        /\ trace[i].fn = stages[4 - i]
        /\ trace[i].arg = IF i = 1 THEN response ELSE trace[i - 1].res.value
        /\ (i > 1 => trace[i - 1].res.kind = "return")

C1_Witness ==
    /\ pc = "done"
    /\ Len(trace) = 3
    /\ stages = << "to_todo", "default_error_handler", "simple_logger" >>
    /\ outcome.kind = "return"
    /\ outcome.value.tag = "Todo"

\* C2: when the response is not ok and the pipeline was built with
\* default_error_handler, the call ends by raising an Exception whose message
\* carries the response's url, its status code and the first ExcerptLen bytes
\* of its body (the whole body when it is shorter); the call returns no value.
C2_FailedRequestRaises ==
    (pc = "done" /\ Got /\ ~response.ok /\ rget.error_handler = "default_error_handler")
        => /\ outcome.kind = "raise"
           /\ outcome.value.type = "Exception"
           /\ outcome.value.msg.values[1] = response.url
           /\ outcome.value.msg.values[2] = response.status_code
           /\ LET excerpt == outcome.value.msg.values[3]
              IN  /\ Len(excerpt) <= 25
                  /\ Len(excerpt) <= Len(response.content)
                  /\ (Len(response.content) >= 25 => Len(excerpt) = 25)
                  /\ (Len(response.content) < 25 => Len(excerpt) = Len(response.content))
                  /\ \A i \in 1..Len(excerpt) : excerpt[i] = response.content[i]

C2_Witness ==
    /\ pc = "done"
    /\ Got
    /\ ~response.ok
    /\ rget.error_handler = "default_error_handler"
    /\ Len(response.content) > 25
    /\ outcome.kind = "raise"
    /\ Len(outcome.value.msg.values[3]) = 25

\* C3: the headers of every GET are the defaults the pipeline was built with
\* overlaid by the overlay of that call: every key of the overlay carries the
\* overlay's value, every other key of the defaults carries the default
\* value, and no other key is sent.
C3_DefaultsOverlaidByCall ==
    request.called =>
        LET sent == request.kw.headers
        IN  /\ Keys(sent) = Keys(defaults0) \cup Keys(CallOverlay)
            /\ \A k \in Keys(CallOverlay) : Lookup(sent, k) = Lookup(CallOverlay, k)
            /\ \A k \in Keys(defaults0) \ Keys(CallOverlay) : Lookup(sent, k) = Lookup(defaults0, k)

\* C4: the overlays accumulate in the default dict itself: the headers of
\* every GET are the original defaults overlaid by the overlays of this call
\* and of all earlier calls, the latest overlay that has a key giving its
\* value; the dict sent is the pipeline's default dict.
C4_HeadersAccumulate ==
    request.called =>
        LET sent == request.kw.headers
            n    == Len(overlays)
            Has(k) == {i \in 1..n : k \in Keys(overlays[i])}
            Last(k) == CHOOSE i \in Has(k) : \A j \in Has(k) : j <= i
        IN  /\ n = ncalls
            /\ sent = DEFAULT_HEADER
            /\ Keys(sent) = Keys(defaults0) \cup UNION {Keys(overlays[i]) : i \in 1..n}
            /\ \A k \in Keys(sent) :
                 /\ Cardinality({p \in sent : p[1] = k}) = 1
                 /\ Lookup(sent, k) = IF Has(k) # {} THEN Lookup(overlays[Last(k)], k)
                                      ELSE Lookup(defaults0, k)

C4_Witness ==
    /\ request.called
    /\ ncalls = 2
    /\ overlays[1] = { <<"a", "1">> }
    /\ "headers" \notin DOMAIN args.kw
    /\ <<"a", "1">> \in request.kw.headers
    /\ "a" \notin Keys(defaults0)

\* C5 as stated: for a non-empty base and a non-empty segment the URL of the
\* GET is base, one "/" and segment, and the "/" of the join has no other "/"
\* next to it.
C5_NoDuplicateSeparator ==
    (request.called /\ rget.base_url # <<>> /\ args.segment # <<>>)
        => /\ IsJoined(request.url, rget.base_url, args.segment)
           /\ ~DuplicatedAt(request.url, Len(rget.base_url) + 1)

\* C5 amended: for a non-empty base and a non-empty segment the URL of the
\* GET is exactly base, one "/" and segment; nothing is stripped, so the "/"
\* of the join has another "/" next to it exactly when the base ends with
\* "/" or the segment starts with "/".
C5_UrlIsPlainJoin ==
    (request.called /\ rget.base_url # <<>> /\ args.segment # <<>>)
        => /\ IsJoined(request.url, rget.base_url, args.segment)
           /\ (DuplicatedAt(request.url, Len(rget.base_url) + 1)
                <=> (rget.base_url[Len(rget.base_url)] = "/" \/ args.segment[1] = "/"))

C5_Witness ==
    /\ request.called
    /\ rget.base_url = << "h", "/" >>
    /\ args.segment = << "/", "t" >>
    /\ request.url = << "h", "/", "/", "/", "t" >>

C7_AllOptional ==
    (pc = "done" /\ rget.headers = "None" /\ rget.error_handler = "None"
        /\ rget.logger = "None" /\ args.segment # <<>>)
        => /\ request.called
           /\ (outcome.kind = "raise" => outcome.value.type # "AttributeError")

\* C8: for a response that is ok, on a pipeline with default_error_handler,
\* the logger, the error classifier and the transform are each called exactly
\* once, in this order, and each is called with the very object requests.get
\* returned.
C8_SameResponseObject ==
    (Got /\ response.ok /\ rget.error_handler = "default_error_handler")
        => /\ Len(trace) <= 3
           /\ \A i \in 1..Len(trace) : trace[i].fn = stages[4 - i] /\ trace[i].arg = response
           /\ (pc = "transform" => val = response)
           /\ (pc = "done" => Len(trace) = 3)

C8_Witness ==
    /\ pc = "done"
    /\ Got
    /\ response.ok
    /\ stages = << "to_todo", "default_error_handler", "simple_logger" >>
    /\ Len(trace) = 3
    /\ trace[3].arg = response
    /\ Len(stdout) = 1

\* C9: with no transform, no error handler and no logger the call returns the
\* very object requests.get returned, also when the response is not ok.
C9_IdentityRoundTrip ==
    (pc = "done" /\ Got /\ ~HasTransform /\ rget.error_handler = "None" /\ rget.logger = "None")
        => outcome = Return(response)

C9_Witness ==
    /\ pc = "done"
    /\ Got
    /\ ~response.ok
    /\ stages = << "null_tranform", "null_tranform", "null_tranform" >>
    /\ outcome.kind = "return"
    /\ outcome.value.oid = response.oid

\* C10: when requests.get raises, the call ends by raising that same failure
\* and neither the logger nor the error classifier nor the transform has been
\* called.
C10_TransportFailurePropagates ==
    (request.called /\ get_result.kind = "raise")
        => /\ pc = "done"
           /\ outcome = get_result
           /\ outcome.value.type \in TransportErrors
           /\ trace = <<>>
           /\ stdout = <<>>

C10_Witness ==
    /\ pc = "done"
    /\ request.called
    /\ get_result.kind = "raise"
    /\ get_result.value.type = "Timeout"
    /\ stages = << "to_todo", "default_error_handler", "simple_logger" >>

\* C24: for a non-success response on a pipeline with simple_logger and
\* default_error_handler, the logger emits its record exactly once, before
\* the classified failure is raised, and the transform is never invoked
C24_LoggedOnceBeforeFailure ==
    (pc = "done" /\ Got /\ ~response.ok
        /\ rget.logger = "simple_logger" /\ rget.error_handler = "default_error_handler") =>
        /\ stdout = simple_logger(response).out
        /\ Len(stdout) = 1
        /\ outcome.kind = "raise"
        /\ outcome.value.type = "Exception"
        /\ Len(trace) = 2
        /\ trace[1].fn = "simple_logger" /\ trace[1].res.kind = "return"
        /\ trace[2].fn = "default_error_handler" /\ trace[2].res.kind = "raise"

\* a call given transform=to_todo got 404, logged once and raised the classified failure
C24_Witness ==
    /\ pc = "done"
    /\ Got
    /\ response.status_code = 404
    /\ rget.logger = "simple_logger"
    /\ rget.error_handler = "default_error_handler"
    /\ HasTransform
    /\ Len(stdout) = 1
    /\ outcome.kind = "raise"

\* C25: on a pipeline built without a logger no call emits a record; on a
\* pipeline built without an error classifier a non-success response raises
\* no classified failure and is handed unchanged to the transform
C25_UnconfiguredStageIsNoOp ==
    /\ rget.logger = "None" => stdout = <<>>
    /\ (rget.error_handler = "None" /\ pc = "done" /\ Got /\ ~response.ok) =>
           /\ Len(trace) = 3
           /\ trace[2].res = [kind |-> "return", value |-> response]
           /\ trace[3].fn = stages[1]
           /\ trace[3].arg = response
           /\ outcome.kind = "raise" => outcome.value.type # "Exception"

\* a pipeline without logger and classifier handed a 404 response to to_todo
C25_Witness ==
    /\ rget.logger = "None"
    /\ rget.error_handler = "None"
    /\ pc = "done"
    /\ Got
    /\ response.status_code = 404
    /\ HasTransform
    /\ Len(trace) = 3
    /\ trace[3].arg = response
    /\ stdout = <<>>

\* the options of the call other than transform and headers
OtherOptions == DOMAIN args.kw \ {"transform", "headers", "none"}

\* C26: of the keyword options given to f, transform never reaches
\* requests.get, headers is replaced by the merged header set, every other
\* option is passed with its value unchanged, and f adds no option
C26_OptionPassThrough ==
    request.called =>
        /\ "transform" \notin DOMAIN request.kw
        /\ request.kw.headers = DEFAULT_HEADER
        /\ CallOverlay \subseteq request.kw.headers
        /\ DOMAIN request.kw = OtherOptions \cup {"headers"}
        /\ \A k \in OtherOptions : request.kw[k] = args.kw[k]

\* a call given a timeout and a transform passed the timeout alone to requests.get
C26_Witness ==
    /\ request.called
    /\ HasTransform
    /\ "timeout" \in DOMAIN args.kw
    /\ "timeout" \in DOMAIN request.kw
    /\ request.kw.timeout = 5

-----------------------------------------------------------------------------
(* Properties of the Todo transforms and of the TodoClient *)

\* the calls of the chain made so far in this call whose function is one of fns
CallsOf(fns) == {i \in 1..Len(trace) : trace[i].fn \in fns}

\* the JSON value a call of the chain decoded, if its argument's body is JSON
IsJson(i) == response_json(trace[i].arg).kind = "return"

JsonOf(i) == response_json(trace[i].arg).value

Returned(i) == trace[i].res.kind = "return"

Raised(i, types) == trace[i].res.kind = "raise" /\ trace[i].res.value.type \in types

\* a JSON object with exactly the four fields, each of the JSON type of its name
WellFormed(j) ==
    /\ j.t = "dict"
    /\ Keys(j.entries) = {"id", "userId", "title", "completed"}
    /\ Lookup(j.entries, "id").t = "int"
    /\ Lookup(j.entries, "userId").t = "int"
    /\ Lookup(j.entries, "title").t = "str"
    /\ Lookup(j.entries, "completed").t = "bool"

\* td is the Todo that carries the four values of the object j
DecodingOf(td, j) ==
    /\ td.tag = "Todo"
    /\ td.id = Lookup(j.entries, "id")
    /\ td.user_id = Lookup(j.entries, "userId")
    /\ td.title = Lookup(j.entries, "title")
    /\ td.completed = Lookup(j.entries, "completed")

\* C11: Todo.from_d maps every well-formed body to a Todo whose id, user_id,
\* title and completed are the body's id, userId, title and completed
C11_FromDKeepsFields ==
    \A i \in CallsOf({"to_todo", "to_todo_or_none"}) :
        (IsJson(i) /\ WellFormed(JsonOf(i))) =>
            (Returned(i) /\ DecodingOf(trace[i].res.value, JsonOf(i)))

\* a body whose id and userId differ was decoded
C11_Witness ==
    \E i \in CallsOf({"to_todo"}) :
        /\ trace[i].arg.content = BodyTodo2
        /\ Returned(i)
        /\ trace[i].res.value.id # trace[i].res.value.user_id

RequiredFields == {"id", "userId", "title", "completed"}

\* a JSON object that has the four fields
HasAllFields(j) == j.t = "dict" /\ RequiredFields \subseteq Keys(j.entries)

\* a JSON object that lacks at least one of the four fields
LacksField(j) == j.t = "dict" /\ ~(RequiredFields \subseteq Keys(j.entries))

\* C12: whenever a field's value is not of its declared kind (a boolean for
\* id, an integer for completed), construction raises TypeError and no Todo
\* is produced
C12_WrongKindRaises ==
    \A i \in CallsOf({"to_todo"}) :
        (IsJson(i) /\ HasAllFields(JsonOf(i)) /\ ~WellFormed(JsonOf(i))) => Raised(i, {"TypeError"})

\* C13: for a JSON object that lacks a required field, to_todo raises a
\* decode failure (KeyError) and to_todo_or_none returns None
C13_MissingFieldStrictRaisesLenientNone ==
    /\ \A i \in CallsOf({"to_todo"}) :
            (IsJson(i) /\ LacksField(JsonOf(i))) => Raised(i, {"KeyError"})
    /\ \A i \in CallsOf({"to_todo_or_none"}) :
            (IsJson(i) /\ LacksField(JsonOf(i))) => (Returned(i) /\ trace[i].res.value = None)

\* to_todo_or_none was given an object without a title and the call returned None
C13_Witness ==
    /\ pc = "done"
    /\ outcome = Return(None)
    /\ \E i \in CallsOf({"to_todo_or_none"}) : trace[i].arg.content = BodyNoTitle

PassesValidate(j) ==
    /\ IsInstance(Lookup(j.entries, "id"), "int")
    /\ IsInstance(Lookup(j.entries, "userId"), "int")
    /\ IsInstance(Lookup(j.entries, "title"), "str")
    /\ IsInstance(Lookup(j.entries, "completed"), "bool")

C15_GetTodoByIdNoneOnNotFound ==
    (entry = "get_todo_by_id" /\ pc = "done" /\ Got) =>
        LET j == response_json(response)
        IN  /\ (~response.ok /\ j.kind = "return" /\ LacksField(j.value)) => outcome = Return(None)
            /\ (response.ok /\ j.kind = "return" /\ WellFormed(j.value)) =>
                   (outcome.kind = "return" /\ DecodingOf(outcome.value, j.value))

\* a client built with default_error_handler got 404 with {} and returned None
C15_Witness ==
    /\ client.error_handler = "default_error_handler"
    /\ entry = "get_todo_by_id"
    /\ pc = "done"
    /\ Got
    /\ response.status_code = 404
    /\ response.content = BodyEmptyObject
    /\ outcome = Return(None)

\* the element e of a JSON array decodes: from_d(e) returns
Decodes(e) == HasAllFields(e) /\ PassesValidate(e)

\* C16: to_todos on a JSON array of n well-formed items returns the list of
\* the n decoded Todos in the order of the array; if any element fails to
\* decode the call raises and returns no list
C16_ToTodosAllOrNothing ==
    \A i \in CallsOf({"to_todos"}) :
        (IsJson(i) /\ JsonOf(i).t = "list") =>
            LET xs == JsonOf(i).elems
            IN  IF \A k \in 1..Len(xs) : Decodes(xs[k])
                THEN /\ Returned(i)
                     /\ trace[i].res.value.tag = "list"
                     /\ Len(trace[i].res.value.elems) = Len(xs)
                     /\ \A k \in 1..Len(xs) : DecodingOf(trace[i].res.value.elems[k], xs[k])
                ELSE /\ trace[i].res.kind = "raise"
                     /\ pc = "done"
                     /\ outcome.kind = "raise"

\* get_todos returned the two Todos of a two-element array, in its order
C16_Witness ==
    /\ entry = "get_todos"
    /\ pc = "done"
    /\ Got
    /\ response.content = BodyArray
    /\ outcome.kind = "return"
    /\ Len(outcome.value.elems) = 2
    /\ outcome.value.elems[1].id = JInt("2")
    /\ outcome.value.elems[2].id = JInt("1")

\* the client that made the current call
self == ClientOf(callers[Len(callers)])

\* the calls so far made by a client that was constructed without headers
SharingCalls == {i \in 1..Len(callers) : ClientOf(callers[i]).given_headers = "None"}

\* C27: clients constructed without headers share the one DEFAULT_HEADER
\* dict: every call of such a client sends the original defaults overlaid by
\* the overlays passed so far through any of them, the latest overlay that
\* has a key giving its value, in any interleaving of their calls
C27_ClientsShareDefaultHeader ==
    (request.called /\ self.given_headers = "None") =>
        LET sent == request.kw.headers
            Has(k) == {i \in SharingCalls : k \in Keys(overlays[i])}
            Last(k) == CHOOSE i \in Has(k) : \A j \in Has(k) : j <= i
        IN  /\ Len(overlays) = Len(callers)
            /\ Keys(sent) = Keys(defaults0) \cup UNION {Keys(overlays[i]) : i \in SharingCalls}
            /\ \A k \in Keys(sent) :
                   Lookup(sent, k) = IF Has(k) # {} THEN Lookup(overlays[Last(k)], k)
                                     ELSE Lookup(defaults0, k)

\* the second client, constructed with the default, sent in a call without
\* overlay the header that the first client had passed to its rget
C27_Witness ==
    /\ Len(callers) = 2
    /\ callers = << "client", "other" >>
    /\ other.given_headers = "None"
    /\ overlays = << { << "a", "1" >> }, {} >>
    /\ request.called
    /\ << "a", "1" >> \in request.kw.headers

\* C28: get_todo_by_id always logs through simple_logger and applies no
\* error classifier, whatever logger and error handler the client was given,
\* so it emits one record per call; get_todos uses the logger and the error
\* handler given at construction
C28_GetTodoByIdIgnoresClientStages ==
    /\ entry = "get_todo_by_id" =>
           /\ stages = << "to_todo_or_none", "null_tranform", "simple_logger" >>
           /\ (pc = "done" /\ Got) => stdout = simple_logger(response).out
    /\ entry = "get_todos" =>
           /\ stages = << "to_todos",
                          IF self.error_handler = "None" THEN "null_tranform" ELSE self.error_handler,
                          self.logger >>
           /\ (pc = "done" /\ Got) =>
                  stdout = IF self.logger = "simple_logger" THEN simple_logger(response).out ELSE <<>>

\* a client built with null_logger emitted a record in get_todo_by_id
C28_Witness ==
    /\ entry = "get_todo_by_id"
    /\ self.logger = "null_logger"
    /\ pc = "done"
    /\ Got
    /\ Len(stdout) = 1

-----------------------------------------------------------------------------
(* Properties of compose *)

\* f1(f2(...fn(v)...)) for the names fs = f1..fn
RECURSIVE RightToLeft(_, _)
RightToLeft(fs, v) ==
    IF fs = <<>> THEN v ELSE Apply(fs[1], RightToLeft(Tail(fs), v)).value

\* fn(...f2(f1(v))...) for the names fs = f1..fn
RECURSIVE LeftToRight(_, _)
LeftToRight(fs, v) ==
    IF fs = <<>> THEN v ELSE LeftToRight(Tail(fs), Apply(fs[1], v).value)

\* C17: the compose of the notebooks applies its functions right-to-left,
\* compose(f1, ..., fn)(x) = f1(f2(...fn(x)...)), and calls each function
\* exactly once per application
C17_NotebookComposeRightToLeft ==
    (~readme /\ cpc = "done") =>
        /\ acc = RightToLeft(given, input)
        /\ Len(calls) = Len(given)
        /\ \A i \in 1..Len(calls) : calls[i].fn = given[Len(given) + 1 - i]

\* three different functions were composed and applied, and the order matters
C17_Witness ==
    /\ ~readme
    /\ cpc = "done"
    /\ given = << "add_one", "multiply(3)", "add_two" >>
    /\ acc # LeftToRight(given, input)

\* C18: the compose of the README applies its functions left-to-right,
\* compose(f1, ..., fn)(x) = fn(...f2(f1(x))...), and
\* compose(add_one, multiply(3), add_two)(7) = 26
C18_ReadmeComposeLeftToRight ==
    (readme /\ cpc = "done") =>
        /\ acc = LeftToRight(given, input)
        /\ (given = << "add_one", "multiply(3)", "add_two" >> /\ input = 7) => acc = 26

\* the example of the README was applied
C18_Witness ==
    /\ readme
    /\ cpc = "done"
    /\ given = << "add_one", "multiply(3)", "add_two" >>
    /\ input = 7
    /\ acc = 26

-----------------------------------------------------------------------------
(* Properties of the command-line runner *)

\* the calls of the kind ev that runner made so far in this run
EventsOf(ev) == {i \in 1..Len(events) : events[i].ev = ev}

\* the sub-command was called and returned, or raised what except Exception catches
FuncReturned == \E i \in EventsOf("func") : events[i].how = "return"

FuncRaisedException ==
    \E i \in EventsOf("func") :
        events[i].how = "raise" /\ IsException(Raise(ClassName(events[i].raised_as), "").value)

\* C19: runner of Iteration #4, once arguments parse, returns 0 if and only
\* if the sub-command returned without raising an Exception; if it raised
\* ex, runner returns error_handler(ex) and raises nothing; in both cases
\* run_epilogue is called exactly once, after the sub-command, with the
\* exit code that runner returns
C19_RunnerExitCode ==
    (iteration = 4 /\ rpc = "done" /\ (FuncReturned \/ FuncRaisedException)) =>
        /\ result.kind = "return"
        /\ result.value = 0 <=> FuncReturned
        /\ FuncRaisedException => result.value = error_handler(caught, default_error_code)
        /\ Cardinality(EventsOf("run_epilogue")) = 1
        /\ \A i \in EventsOf("run_epilogue") :
               /\ events[i].exit_code = result.value
               /\ \A j \in EventsOf("func") : j < i

\* a sub-command raised ZeroDivisionError and runner returned 7 after the epilogue
C19_Witness ==
    /\ iteration = 4
    /\ rpc = "done"
    /\ FuncRaisedException
    /\ caught.type = "ZeroDivisionError"
    /\ result = Return(7)
    /\ events[Len(events)] = [ev |-> "run_epilogue", exit_code |-> 7]

\* the exit code C20 states for an exception raised as cls
StatedCode(cls) ==
    CASE cls = "ZeroDivisionError" -> 7
      [] cls = "IOError"           -> 3
      [] cls = "ValueError"        -> 4
      [] OTHER                     -> default_error_code

\* C20: error_handler maps an exception raised as ZeroDivisionError to 7, as
\* IOError to 3, as ValueError to 4 and every other exception to the
\* default 1; it never returns 0
C20_ErrorHandlerMapping ==
    \A i \in EventsOf("error_handler") :
        /\ events[i].code = StatedCode(events[i].raised_as)
        /\ events[i].code # 0

\* C21: in runner of Iteration #3 an exception raised by the sub-command is
\* caught, run_epilogue is then called with exit code 1, and runner returns
\* normally: no exception leaves runner
C21_Iteration3ReturnsAfterException ==
    (iteration = 3 /\ rpc = "done" /\ FuncRaisedException) =>
        /\ result.kind = "return"
        /\ \E i \in EventsOf("run_epilogue") : events[i].exit_code = 1

\* the kinds of the calls runner made, error_handler left out, in order
RECURSIVE Steps(_)
Steps(evs) ==
    IF evs = <<>> THEN <<>>
    ELSE IF Head(evs).ev = "error_handler" THEN Steps(Tail(evs))
    ELSE << Head(evs).ev >> \o Steps(Tail(evs))

\* s is a prefix of t
IsPrefix(s, t) == Len(s) <= Len(t) /\ s = SubSeq(t, 1, Len(s))

\* C29: runner of Iteration #4 parses the arguments, then calls
\* setup_logger(level, log_file), then the sub-command, then run_epilogue,
\* each at most once per run; if parsing exits none of the three is called;
\* a SystemExit raised at any step is not converted to an exit code and
\* leaves runner
C29_RunnerStepOrder ==
    iteration = 4 =>
        /\ IsPrefix(Steps(events), << "setup_logger", "func", "run_epilogue" >>)
        /\ events # <<>> => (pargs # None /\ parse_args(argv) = Return(pargs))
        /\ \A i \in EventsOf("setup_logger") :
               events[i].level = pargs.level /\ events[i].output_file = pargs.log_file
        /\ (rpc \notin {"idle", "parse"} /\ parse_args(argv).kind = "raise") =>
               (rpc = "done" /\ events = <<>> /\ result = parse_args(argv))
        /\ \A i \in EventsOf("func") :
               events[i].raised_as = "SystemExit" =>
                   (rpc = "done" /\ result = Raise("SystemExit", "") /\ i = Len(events))

\* 'hello --help' made the parser exit and no hook was called
C29_Witness ==
    /\ iteration = 4
    /\ argv = << "hello", "--help" >>
    /\ rpc = "done"
    /\ result = Raise("SystemExit", "0")
    /\ events = <<>>

-----------------------------------------------------------------------------
(* Properties of the closures of Part 4 *)

\* the calls of fn made so far on the closure c
CallsOn(fn, c) == {k \in 1..Len(log) : log[k].fn = fn /\ log[k].c = c}

\* the calls before the k-th that were made on the same closure with the same function and pair
EarlierSame(k) ==
    {j \in 1..(k - 1) : log[j].fn = log[k].fn /\ log[j].c = log[k].c
                          /\ log[j].m = log[k].m /\ log[j].n = log[k].n}

\* C22 as stated: every call f2(m, n) returns f(m, n), f is invoked only on
\* the first call for each pair, and a written entry stays
C22_InvokedOnFirstCallOnly ==
    \A c \in Closures : \A k \in CallsOn("f2", c) :
        /\ log[k].res = CallF(wrapped, log[k].m, log[k].n)
        /\ log[k].invoked <=> EarlierSame(k) = {}
        /\ (log[k].invoked /\ log[k].res.kind = "return") =>
               << << log[k].m, log[k].n >>, log[k].res.value >> \in cache[c]

\* C22, amended: every call f2(m, n) ends as f(m, n) does; f is invoked
\* exactly on the calls before which no call with that pair has returned
\* (a call in which f raises stores nothing); every other call prints and
\* returns the stored value; the cache holds exactly the values returned
\* for the pairs so far, so no entry is removed or overwritten
C22_InvokedUntilFirstReturn ==
    \A c \in Closures :
        /\ \A k \in CallsOn("f2", c) :
               /\ log[k].res = CallF(wrapped, log[k].m, log[k].n)
               /\ log[k].invoked <=> (\A j \in EarlierSame(k) : log[j].res.kind = "raise")
               /\ log[k].printed <=> ~log[k].invoked
        /\ cache[c] = { << << log[k].m, log[k].n >>, log[k].res.value >> :
                            k \in {i \in CallsOn("f2", c) : log[i].res.kind = "return"} }

\* f raised for a pair and was invoked again on the next call with that pair
C22_Witness ==
    \E c \in Closures : \E j, k \in CallsOn("f2", c) :
        /\ j < k
        /\ j \in EarlierSame(k)
        /\ log[j].res.kind = "raise"
        /\ log[k].invoked

====
